---- MODULE Spec2Model ----
(***************************************************************************)
(* Model of analyze.py: the keyword extraction script of the podcast       *)
(* research site.  Two parts of the script are modelled:                   *)
(*   - the chunker (create_base_chunks, combine_chunks and the loop that   *)
(*     fills all_generated_chunks), specification SpecChunk;               *)
(*   - the mapping and filtering pipeline (regex mapping, frequency        *)
(*     filter, substring filter, cleanup_keywords, final JSON maps),       *)
(*     specifications SpecPipe and SpecFilter.                             *)
(*                                                                         *)
(* Strings are sequences of characters.  The module is ASCII only, so the  *)
(* Japanese tags of the source are written in romaji:                      *)
(*   meishi = 名詞, settoushi = 接頭詞, doushi = 動詞, jodoushi = 助動詞,  *)
(*   keiyoushi = 形容詞, rentaishi = 連体詞, fukushi = 副詞,               *)
(*   keiyoudoushi = 形容動詞, joshi = 助詞, kigou = 記号,                  *)
(*   meishiku = 名詞句, doushiku = 動詞句, ...ku = ...句,                  *)
(*   rentaika = 連体化, setsuzokujoshi = 接続助詞,                         *)
(*   heiritsujoshi = 並立助詞, kakujoshi = 格助詞,                         *)
(*   kihonkei = 基本形, rentaikei = 連体形, renyoukei = 連用形;            *)
(* and the characters の を が は て と か ら で are "no" "wo" "ga" "ha"   *)
(* "te" "to" "ka" "ra" "de".                                               *)
(***************************************************************************)
EXTENDS Integers, Sequences, FiniteSets, TLC

VARIABLES
    \* ---- chunker (one document) ----
    pc,                    \* position of the script in the per-document loop body
    tokens,                \* all_tokens[filename] of the document being processed
    base_chunks,           \* result of create_base_chunks(tokens)
    chunks,                \* combine_chunks: the current chunk list
    new_chunks,            \* combine_chunks: the list built by the current pass
    i,                     \* combine_chunks: cursor of the current pass (0-based)
    did_combine,           \* combine_chunks: a merge happened in the current pass
    all_generated_chunks,  \* surface -> set of pos (defaultdict(set))
    created,               \* history: every chunk (surface, pos) created so far
    \* ---- mapping and filtering (whole corpus) ----
    transcripts,           \* transcripts_data: document id -> content
    all_keywords,          \* the set of candidate surfaces
    escaped_keywords,      \* the candidates in the set's iteration order, '' left out
    keyword_to_episodes,   \* keyword -> list of document ids
    frequent_keywords_map, \* keyword_to_episodes after the frequency filter
    sorted_keywords,       \* the frequent keywords, longest first
    idx,                   \* position of the substring filter in sorted_keywords
    keywords_to_remove,    \* keywords marked by the substring filter
    final_keywords_after_substring,
    final_keywords,        \* result of cleanup_keywords
    filtered_keyword_to_episodes,
    episode_to_keywords    \* document id -> sorted list of keywords

chunkVars == <<tokens, base_chunks, chunks, new_chunks, i, did_combine, created>>

pipeVars == <<transcripts, all_keywords, escaped_keywords, keyword_to_episodes,
              frequent_keywords_map, sorted_keywords, idx, keywords_to_remove,
              final_keywords_after_substring, final_keywords,
              filtered_keyword_to_episodes, episode_to_keywords>>

vars == <<pc, all_generated_chunks, chunkVars, pipeVars>>

(***************************************************************************)
(* Bounds                                                                  *)
(***************************************************************************)
MaxTokens == 3
\* SpecPipe: number of documents and longest document content
NumDocs == 4
MaxContentLen == 2
\* SpecFilter: the two corpus sizes
SmallTotal == 5
LargeTotal == 20

(***************************************************************************)
(* Tokens: the dicts {'surface', 'part_of_speech', 'infl_form'} the script *)
(* caches.  part_of_speech is kept as the list of its comma separated      *)
(* fields, so part_of_speech.split(',')[k] is part_of_speech[k+1].         *)
(***************************************************************************)
Tok(s, p, f) == [surface |-> s, part_of_speech |-> p, infl_form |-> f]

TokenSet ==
    { Tok(<<"a">>,       <<"meishi", "ippan">>,          "*"),
      Tok(<<"o">>,       <<"settoushi", "meishisetsuzoku">>, "*"),
      Tok(<<"v">>,       <<"doushi", "jiritsu">>,        "kihonkei"),
      Tok(<<"w">>,       <<"doushi", "jiritsu">>,        "renyoukei"),
      Tok(<<"t">>,       <<"jodoushi", "*">>,            "kihonkei"),
      Tok(<<"k">>,       <<"keiyoushi", "jiritsu">>,     "kihonkei"),
      Tok(<<"no">>,      <<"joshi", "rentaika">>,        "*"),
      Tok(<<"wo">>,      <<"joshi", "kakujoshi">>,       "*"),
      Tok(<<"ga">>,      <<"joshi", "kakujoshi">>,       "*"),
      Tok(<<"te">>,      <<"joshi", "setsuzokujoshi">>,  "*"),
      Tok(<<"to">>,      <<"joshi", "heiritsujoshi">>,   "*"),
      Tok(<<"ka", "ra">>, <<"joshi", "kakujoshi">>,      "*"),
      Tok(<<".">>,       <<"kigou", "kuten">>,           "*") }

TokenSeqs == UNION { [1..n -> TokenSet] : n \in 0..MaxTokens }

\* token['part_of_speech'].split(',')[0]
pos0(token) == token.part_of_speech[1]
\* token['part_of_speech'].split(',')[1]
pos1(token) == token.part_of_speech[2]

\* "".join([t['surface'] for t in chunk_tokens])
RECURSIVE JoinSurfaces(_)
JoinSurfaces(toks) ==
    IF toks = <<>> THEN <<>>
    ELSE Head(toks).surface \o JoinSurfaces(Tail(toks))

Chunk(s, toks, p) == [surface |-> s, tokens |-> toks, pos |-> p]

(***************************************************************************)
(* create_base_chunks                                                      *)
(***************************************************************************)
\* Rule 1 inner loop: first index j >= from (1-based) whose token is neither
\* a noun nor a prefix, or Len(toks)+1.
RECURSIVE NounRunEnd(_, _)
NounRunEnd(toks, j) ==
    IF j <= Len(toks) /\ pos0(toks[j]) \in {"meishi", "settoushi"}
    THEN NounRunEnd(toks, j + 1)
    ELSE j

\* Rule 3 inner loop: first index j >= from whose token is not an auxiliary.
RECURSIVE AuxRunEnd(_, _)
AuxRunEnd(toks, j) ==
    IF j <= Len(toks) /\ pos0(toks[j]) = "jodoushi"
    THEN AuxRunEnd(toks, j + 1)
    ELSE j

\* Rule 1: the tokens gathered from cursor k, a maximal run of nouns/prefixes.
NounChunkTokens(toks, k) == SubSeq(toks, k, NounRunEnd(toks, k) - 1)

\* A slip in Rule 3: chunk_tokens starts empty instead of [tokens[j]].
VerbChunkTokens_noverb(toks, k) == SubSeq(toks, k + 1, AuxRunEnd(toks, k + 1) - 1)

\* Rule 3: the verb at cursor k and the auxiliaries that follow it.
VerbChunkTokens(toks, k) ==
    <<toks[k]>> \o SubSeq(toks, k + 1, AuxRunEnd(toks, k + 1) - 1)

\* One iteration of the while loop: the chunk built at cursor k (1-based)
\* and the cursor after it.
BaseChunkAt(toks, k) ==
    LET token == toks[k]
        pos   == pos0(token)
    IN  IF pos = "settoushi" \/ pos = "meishi"
        THEN LET ct == NounChunkTokens(toks, k)
             IN  [chunk |-> Chunk(JoinSurfaces(ct), ct,
                                  IF Len(ct) > 1 \/ pos0(ct[1]) = "settoushi"
                                  THEN "meishiku" ELSE "meishi"),
                  next  |-> NounRunEnd(toks, k)]
        ELSE IF pos \in {"keiyoushi", "rentaishi", "fukushi", "keiyoudoushi"}
        THEN [chunk |-> Chunk(token.surface, <<token>>, pos), next |-> k + 1]
        ELSE IF pos = "doushi"
        THEN LET ct == VerbChunkTokens(toks, k)
             IN  [chunk |-> Chunk(JoinSurfaces(ct), ct, "doushiku"),
                  next  |-> AuxRunEnd(toks, k + 1)]
        ELSE [chunk |-> Chunk(token.surface, <<token>>, pos), next |-> k + 1]

RECURSIVE BaseChunksFrom(_, _, _)
BaseChunksFrom(toks, k, acc) ==
    IF k > Len(toks) THEN acc
    ELSE LET r == BaseChunkAt(toks, k)
         IN  BaseChunksFrom(toks, r.next, Append(acc, r.chunk))

create_base_chunks(toks) == BaseChunksFrom(toks, 1, <<>>)

(***************************************************************************)
(* combine_chunks.  The cursor i is 0-based as in the source; At(ch, k) is *)
(* chunks[k].                                                              *)
(***************************************************************************)
At(ch, k) == ch[k + 1]

NounPos == {"meishiku", "meishi"}
ModifierPos == {"keiyoushi", "rentaishi", "fukushi", "keiyoudoushi"}

\* A slip in a merge: the middle chunk's tokens are left out.
combined_tokens_nomiddle(ch, k, n) ==
    IF n = 2 THEN At(ch, k).tokens \o At(ch, k + 1).tokens
    ELSE At(ch, k).tokens \o At(ch, k + 2).tokens

\* combined_tokens = chunks[i]['tokens'] + chunks[i+1]['tokens'] (+ chunks[i+2]['tokens'])
combined_tokens(ch, k, n) ==
    IF n = 2 THEN At(ch, k).tokens \o At(ch, k + 1).tokens
    ELSE At(ch, k).tokens \o At(ch, k + 1).tokens \o At(ch, k + 2).tokens

\* new_chunk = {'surface': "".join(...), 'tokens': combined_tokens, 'pos': p};
\* new_chunks.append(new_chunk); i += n; did_combine = True; continue
Merged(ch, k, n, p) ==
    LET ct == combined_tokens(ch, k, n)
    IN  [consumed |-> n, chunk |-> Chunk(JoinSurfaces(ct), ct, p)]

\* chunks[i+1] is a one-token particle chunk of the given sub-category
ParticleOfType(c, sub) ==
    c.pos = "joshi" /\ Len(c.tokens) = 1 /\ pos1(c.tokens[1]) = sub

\* Rule A: Noun Phrase + Attributive Particle + Noun Phrase
RuleA_cond(ch, k) ==
    /\ k + 2 < Len(ch)
    /\ At(ch, k).pos \in NounPos
    /\ ParticleOfType(At(ch, k + 1), "rentaika")
    /\ At(ch, k + 2).pos \in NounPos
RuleA_merge(ch, k) == Merged(ch, k, 3, "meishiku")

\* Rule B: Modifier + Modified
RuleB_cond(ch, k) ==
    /\ k + 1 < Len(ch)
    /\ At(ch, k).pos \in ModifierPos
    /\ At(ch, k + 1).pos \in {"meishiku", "doushiku", "keiyoushi", "meishi"}
\* A slip in Rule B: i += 1 instead of i += 2.
RuleB_merge_advance1(ch, k) ==
    [consumed |-> 1, chunk |-> Merged(ch, k, 2, At(ch, k + 1).pos).chunk]
RuleB_merge(ch, k) == Merged(ch, k, 2, At(ch, k + 1).pos)

\* Rule I (moved up): Verb Phrase + Connective Particle + Verb Phrase
RuleI_cond(ch, k) ==
    /\ k + 2 < Len(ch)
    /\ At(ch, k).pos = "doushiku"
    /\ ParticleOfType(At(ch, k + 1), "setsuzokujoshi")
    /\ At(ch, k + 2).pos = "doushiku"
RuleI_merge(ch, k) == Merged(ch, k, 3, "doushiku")

\* Rule C: Noun Phrase + wo + Verb Phrase.  The body only assigns the local
\* combined_tokens: no chunk is appended, i and did_combine are untouched and
\* control falls through to Rule D.
RuleC_cond(ch, k) ==
    /\ k + 2 < Len(ch)
    /\ At(ch, k).pos \in NounPos
    /\ At(ch, k + 1).surface = <<"wo">> /\ At(ch, k + 1).pos = "joshi"
    /\ At(ch, k + 2).pos = "doushiku"

\* chunks[i+2]['pos'] + '句'
AddKu(p) ==
    CASE p = "keiyoushi"    -> "keiyoushiku"
      [] p = "keiyoudoushi" -> "keiyoudoushiku"
      [] OTHER              -> "ku"

\* Rule D: Noun Phrase + ga/ha + Adjective
RuleD_cond(ch, k) ==
    /\ k + 2 < Len(ch)
    /\ At(ch, k).pos \in NounPos
    /\ At(ch, k + 1).pos = "joshi" /\ At(ch, k + 1).surface \in {<<"ga">>, <<"ha">>}
    /\ At(ch, k + 2).pos \in {"keiyoushi", "keiyoudoushi"}
RuleD_merge(ch, k) == Merged(ch, k, 3, AddKu(At(ch, k + 2).pos))

\* Rule E: Parallel Structures
RuleE_cond(ch, k) ==
    /\ k + 2 < Len(ch)
    /\ ParticleOfType(At(ch, k + 1), "heiritsujoshi")
    /\ LET pos_a == At(ch, k).pos
           pos_b == At(ch, k + 2).pos
           is_noun_pair == pos_a \in NounPos /\ pos_b \in NounPos
       IN  is_noun_pair \/ pos_a = pos_b
RuleE_merge(ch, k) == Merged(ch, k, 3, At(ch, k).pos)

\* Rule F: Cause/Reason
RuleF_cond(ch, k) ==
    /\ k + 2 < Len(ch)
    /\ At(ch, k + 1).pos = "joshi"
    /\ At(ch, k + 1).surface \in {<<"no", "de">>, <<"ka", "ra">>}
    /\ At(ch, k).pos \notin {"joshi", "kigou"}
    /\ At(ch, k + 2).pos \notin {"joshi", "kigou"}
RuleF_merge(ch, k) == Merged(ch, k, 3, At(ch, k + 2).pos)

\* for t in reversed(chunks[i]['tokens']): the last verb token, or none
RECURSIVE LastVerbIndex(_, _)
LastVerbIndex(toks, j) ==
    IF j = 0 THEN 0
    ELSE IF pos0(toks[j]) = "doushi" THEN j
    ELSE LastVerbIndex(toks, j - 1)

\* A slip in Rule G: the inflection form of the verb is not tested.
RuleG_cond_anyform(ch, k) ==
    /\ k + 1 < Len(ch)
    /\ At(ch, k).pos = "doushiku"
    /\ At(ch, k + 1).pos \in NounPos
    /\ LastVerbIndex(At(ch, k).tokens, Len(At(ch, k).tokens)) # 0

\* Rule G: Verb Phrase modifying a Noun Phrase
RuleG_cond(ch, k) ==
    /\ k + 1 < Len(ch)
    /\ At(ch, k).pos = "doushiku"
    /\ At(ch, k + 1).pos \in NounPos
    /\ LET toks == At(ch, k).tokens
           v    == LastVerbIndex(toks, Len(toks))
       IN  v # 0 /\ toks[v].infl_form \in {"kihonkei", "rentaikei"}
RuleG_merge(ch, k) == Merged(ch, k, 2, "meishiku")

\* Rule H: Verb Phrase ending with Auxiliary Verb modifying a Noun Phrase
RuleH_cond(ch, k) ==
    /\ k + 1 < Len(ch)
    /\ At(ch, k).pos = "doushiku"
    /\ At(ch, k + 1).pos \in NounPos
    /\ LET toks == At(ch, k).tokens
       IN  pos0(toks[Len(toks)]) = "jodoushi"
RuleH_merge(ch, k) == Merged(ch, k, 2, "meishiku")

\* The body of the inner while loop at cursor k: the first rule, in source
\* order, whose condition holds; consumed = 0 when none does.  Rule C has no
\* branch: where RuleC_cond holds the source changes no state and goes on to
\* Rule D.  The second copy of Rule I (lines 321-336) has the condition of
\* the first.
MergeAt(ch, k) ==
    IF RuleA_cond(ch, k) THEN RuleA_merge(ch, k)
    ELSE IF RuleB_cond(ch, k) THEN RuleB_merge(ch, k)
    ELSE IF RuleI_cond(ch, k) THEN RuleI_merge(ch, k)
    ELSE IF RuleD_cond(ch, k) THEN RuleD_merge(ch, k)
    ELSE IF RuleE_cond(ch, k) THEN RuleE_merge(ch, k)
    ELSE IF RuleF_cond(ch, k) THEN RuleF_merge(ch, k)
    ELSE IF RuleG_cond(ch, k) THEN RuleG_merge(ch, k)
    ELSE IF RuleH_cond(ch, k) THEN RuleH_merge(ch, k)
    ELSE IF RuleI_cond(ch, k) THEN RuleI_merge(ch, k)
    ELSE [consumed |-> 0, chunk |-> At(ch, k)]

(***************************************************************************)
(* all_generated_chunks[chunk['surface']].add(chunk['pos']) for every      *)
(* chunk of the list whose surface is longer than one character.           *)
(***************************************************************************)
RECURSIVE AddChunks(_, _)
AddChunks(g, cs) ==
    IF cs = <<>> THEN g
    ELSE LET c == Head(cs)
             g1 == IF Len(c.surface) > 1
                   THEN [s \in DOMAIN g \cup {c.surface} |->
                            IF s = c.surface
                            THEN (IF s \in DOMAIN g THEN g[s] ELSE {}) \cup {c.pos}
                            ELSE g[s]]
                   ELSE g
         IN  AddChunks(g1, Tail(cs))

SurfacePos(c) == [surface |-> c.surface, pos |-> c.pos]
ChunkSet(cs) == { SurfacePos(cs[n]) : n \in 1..Len(cs) }

(***************************************************************************)
(* The per-document body of the loop of lines 395-406.                     *)
(***************************************************************************)
\* The chunker is not running.
ChunkIdle ==
    /\ tokens = <<>>
    /\ base_chunks = <<>>
    /\ chunks = <<>>
    /\ new_chunks = <<>>
    /\ i = 0
    /\ did_combine = FALSE
    /\ created = {}

\* The mapping and filtering part has not started.
PipeIdle ==
    /\ transcripts = <<>>
    /\ all_keywords = {}
    /\ escaped_keywords = <<>>
    /\ keyword_to_episodes = <<>>
    /\ frequent_keywords_map = <<>>
    /\ sorted_keywords = <<>>
    /\ idx = 0
    /\ keywords_to_remove = {}
    /\ final_keywords_after_substring = {}
    /\ final_keywords = {}
    /\ filtered_keyword_to_episodes = <<>>
    /\ episode_to_keywords = <<>>

InitChunk ==
    /\ pc = "start"
    /\ tokens \in TokenSeqs
    /\ base_chunks = <<>>
    /\ chunks = <<>>
    /\ new_chunks = <<>>
    /\ i = 0
    /\ did_combine = FALSE
    /\ all_generated_chunks = <<>>
    /\ created = {}
    /\ PipeIdle

\* base_chunks = create_base_chunks(tokens)
CreateBaseChunks ==
    /\ pc = "start"
    /\ base_chunks' = create_base_chunks(tokens)
    /\ created' = created \cup ChunkSet(base_chunks')
    /\ pc' = "add_base"
    /\ UNCHANGED <<tokens, chunks, new_chunks, i, did_combine, all_generated_chunks>>
    /\ UNCHANGED pipeVars

\* "Add base chunks", then the call combine_chunks(base_chunks) up to the
\* start of its first pass.
AddBaseChunks ==
    /\ pc = "add_base"
    /\ all_generated_chunks' = AddChunks(all_generated_chunks, base_chunks)
    /\ chunks' = base_chunks
    /\ did_combine' = FALSE
    /\ new_chunks' = <<>>
    /\ i' = 0
    /\ pc' = "combine"
    /\ UNCHANGED <<tokens, base_chunks, created>>
    /\ UNCHANGED pipeVars

\* One iteration of the inner loop in which a rule merges chunks.
CombineMerge ==
    /\ pc = "combine"
    /\ i < Len(chunks)
    /\ LET r == MergeAt(chunks, i)
       IN  /\ r.consumed > 0
           /\ new_chunks' = Append(new_chunks, r.chunk)
           /\ i' = i + r.consumed
           /\ did_combine' = TRUE
           /\ created' = created \cup {SurfacePos(r.chunk)}
    /\ UNCHANGED <<pc, tokens, base_chunks, chunks, all_generated_chunks>>
    /\ UNCHANGED pipeVars

\* One iteration of the inner loop in which no rule applies.
CombineKeep ==
    /\ pc = "combine"
    /\ i < Len(chunks)
    /\ MergeAt(chunks, i).consumed = 0
    /\ new_chunks' = Append(new_chunks, At(chunks, i))
    /\ i' = i + 1
    /\ UNCHANGED <<pc, tokens, base_chunks, chunks, did_combine,
                   all_generated_chunks, created>>
    /\ UNCHANGED pipeVars

\* End of a pass: chunks = new_chunks; break if nothing was merged, else
\* start the next pass.
PassEnd ==
    /\ pc = "combine"
    /\ i >= Len(chunks)
    /\ chunks' = new_chunks
    /\ IF ~did_combine
       THEN /\ pc' = "add_combined"
            /\ UNCHANGED <<new_chunks, i, did_combine>>
       ELSE /\ did_combine' = FALSE
            /\ new_chunks' = <<>>
            /\ i' = 0
            /\ pc' = "combine"
    /\ UNCHANGED <<tokens, base_chunks, all_generated_chunks, created>>
    /\ UNCHANGED pipeVars

\* combined_chunks = the returned list; "Add combined chunks".
AddCombinedChunks ==
    /\ pc = "add_combined"
    /\ all_generated_chunks' = AddChunks(all_generated_chunks, chunks)
    /\ pc' = "done"
    /\ UNCHANGED <<tokens, base_chunks, chunks, new_chunks, i, did_combine, created>>
    /\ UNCHANGED pipeVars

NextChunk ==
    \/ CreateBaseChunks
    \/ AddBaseChunks
    \/ CombineMerge
    \/ CombineKeep
    \/ PassEnd
    \/ AddCombinedChunks

SpecChunk == InitChunk /\ [][NextChunk]_vars

\* The script is sequential: a step that can be taken is taken.
FairSpecChunk == SpecChunk /\ WF_vars(NextChunk)

(***************************************************************************)
(* Properties of the chunker                                               *)
(***************************************************************************)
RECURSIVE ConcatTokens(_)
ConcatTokens(cs) ==
    IF cs = <<>> THEN <<>> ELSE Head(cs).tokens \o ConcatTokens(Tail(cs))

RECURSIVE ConcatSurfaces(_)
ConcatSurfaces(cs) ==
    IF cs = <<>> THEN <<>> ELSE Head(cs).surface \o ConcatSurfaces(Tail(cs))

\* C2: the base chunks cover the token sequence exactly once: their token
\* lists, concatenated in order, are the input tokens (no gap, no overlap, no
\* token dropped or duplicated, order kept), no chunk is empty, and their
\* surfaces concatenated in order are the tokens' surfaces concatenated.
C2_Coverage ==
    pc # "start" =>
        /\ ConcatTokens(base_chunks) = tokens
        /\ ConcatSurfaces(base_chunks) = JoinSurfaces(tokens)
        /\ \A n \in 1..Len(base_chunks) : base_chunks[n].tokens # <<>>

\* A document whose base chunks include a multi-token chunk next to others.
C2_Witness ==
    /\ pc # "start"
    /\ Len(base_chunks) >= 2
    /\ \E n \in 1..Len(base_chunks) : Len(base_chunks[n].tokens) >= 2

\* C3: in every pass of combine_chunks, every chunk appended to new_chunks
\* has as token list the in-order concatenation of the token lists of the
\* adjacent chunks the cursor passed over, and every chunk held by the engine
\* has as surface the in-order concatenation of its tokens' surfaces.
C3_SurfaceInvariant ==
    /\ [](\A n \in 1..Len(chunks) : chunks[n].surface = JoinSurfaces(chunks[n].tokens))
    /\ [](\A n \in 1..Len(new_chunks) :
              new_chunks[n].surface = JoinSurfaces(new_chunks[n].tokens))
    /\ [][(pc = "combine" /\ Len(new_chunks') = Len(new_chunks) + 1) =>
            LET c == new_chunks'[Len(new_chunks')]
                replaced == SubSeq(chunks, i + 1, i')
            IN  /\ i' > i
                /\ c.tokens = ConcatTokens(replaced)
                /\ c.surface = ConcatSurfaces(replaced)
                /\ c.surface = JoinSurfaces(c.tokens)]_vars

\* A second pass has merged three chunks, one of them made by the first pass.
C3_Witness ==
    /\ pc = "combine"
    /\ \E n \in 1..Len(new_chunks) :
          /\ Len(new_chunks[n].tokens) >= 3
          /\ \E m \in 1..Len(chunks) :
                /\ SurfacePos(chunks[m]) \notin ChunkSet(base_chunks)
                /\ Len(chunks[m].tokens) < Len(new_chunks[n].tokens)

\* Position of the document's processing in the script: 0 at the end.
PcRank ==
    CASE pc = "start" -> 4
      [] pc = "add_base" -> 3
      [] pc = "combine" -> 2
      [] pc = "add_combined" -> 1
      [] OTHER -> 0

\* Twice the length the list can still have after the current pass, plus one
\* while the pass has merged and so another pass is due.
PassRank == 2 * (Len(new_chunks) + Len(chunks) - i) + (IF did_combine THEN 1 ELSE 0)

\* Chunks of the current pass the cursor has not reached.
CursorRank == Len(chunks) - i

\* The step lowers <<PcRank, PassRank, CursorRank>> in the lexicographic order.
RankDecreases ==
    \/ PcRank' < PcRank
    \/ PcRank' = PcRank /\ PassRank' < PassRank
    \/ PcRank' = PcRank /\ PassRank' = PassRank /\ CursorRank' < CursorRank

\* C4: combine_chunks terminates: a pass that merged ends with strictly fewer
\* chunks than it started with and is followed by another pass, a pass that
\* merged nothing leaves the list as it is and exits the loop, the cursor
\* moves forward in every iteration without passing the end of the list, and
\* every step of the document's processing lowers a rank over the naturals,
\* so the processing takes finitely many steps.
C4_Termination ==
    /\ [][(pc = "combine" /\ i >= Len(chunks)) =>
            IF did_combine
            THEN Len(chunks') < Len(chunks) /\ pc' = "combine"
            ELSE chunks' = chunks /\ pc' = "add_combined"]_vars
    /\ [][(pc = "combine" /\ i < Len(chunks)) => (pc' = "combine" /\ i' > i)]_vars
    /\ [][RankDecreases /\ i' <= Len(chunks')]_vars

\* The engine has returned after a pass absorbed a chunk merged by an earlier pass.
C4_Witness ==
    /\ pc = "done"
    /\ Len(chunks) < Len(base_chunks)
    /\ \E c \in created : c \notin ChunkSet(base_chunks) /\ c \notin ChunkSet(chunks)

\* C5: every chunk created for the document (base, merged in any pass, final)
\* with a surface longer than one character is recorded in
\* all_generated_chunks under its pos.
C5_AllCreatedRecorded ==
    pc = "done" =>
        \A c \in created :
            Len(c.surface) > 1 =>
                /\ c.surface \in DOMAIN all_generated_chunks
                /\ c.pos \in all_generated_chunks[c.surface]

\* C6: the returned chunk list never has a noun / noun phrase, the particle
\* wo and a verb phrase as three adjacent chunks.
C6_NoNounWoVerb ==
    pc = "done" => \A k \in 0..(Len(chunks) - 3) : ~RuleC_cond(chunks, k)

(***************************************************************************)
(* Mapping: lines 419-437.  A compiled alternation 'k1|k2|...' of escaped  *)
(* literals is scanned with findall: the matches are found left to right,  *)
(* at each position the first alternative (in pattern order) that matches  *)
(* there wins, and the scan resumes after the end of the match, so         *)
(* matches never overlap.  re.escape makes each alternative match itself   *)
(* literally.                                                              *)
(***************************************************************************)
chunk_size == 500

Min(a, b) == IF a < b THEN a ELSE b

Range(f) == { f[x] : x \in DOMAIN f }

\* the literal kw matches content at position p (1-based)
MatchesAt(kw, content, p) ==
    /\ p + Len(kw) - 1 <= Len(content)
    /\ SubSeq(content, p, p + Len(kw) - 1) = kw

\* kw in content
Contains(content, kw) ==
    \E p \in 1..(Len(content) - Len(kw) + 1) : MatchesAt(kw, content, p)

\* index of the first alternative of alts, from n on, matching at p; 0 if none
RECURSIVE FirstMatch(_, _, _, _)
FirstMatch(alts, content, p, n) ==
    IF n > Len(alts) THEN 0
    ELSE IF MatchesAt(alts[n], content, p) THEN n
    ELSE FirstMatch(alts, content, p, n + 1)

\* set(regex.findall(content)) for the alternation of alts, scanning from p
RECURSIVE FindAllFrom(_, _, _)
FindAllFrom(alts, content, p) ==
    IF p > Len(content) THEN {}
    ELSE LET n == FirstMatch(alts, content, p, 1)
         IN  IF n = 0 THEN FindAllFrom(alts, content, p + 1)
             ELSE {alts[n]} \cup FindAllFrom(alts, content, p + Len(alts[n]))

findall(alts, content) == FindAllFrom(alts, content, 1)

\* keyword_chunks = [escaped_keywords[i:i + chunk_size] for i in range(0, len, chunk_size)]
RECURSIVE keyword_chunks(_)
keyword_chunks(escaped) ==
    IF escaped = <<>> THEN <<>>
    ELSE <<SubSeq(escaped, 1, Min(chunk_size, Len(escaped)))>>
         \o keyword_chunks(SubSeq(escaped, chunk_size + 1, Len(escaped)))

\* found_keywords_in_file: the union of the findall results of all batches
found_keywords_in_file(escaped, content) ==
    LET regex_chunks == keyword_chunks(escaped)
    IN  UNION { findall(regex_chunks[b], content) : b \in DOMAIN regex_chunks }

\* found_keywords_in_file of every document
found_in_files(escaped, docs) ==
    LET f[d \in DOMAIN docs] == found_keywords_in_file(escaped, docs[d])
    IN  f

\* the list keyword_to_episodes[kw] after the documents 1..d were scanned in order
RECURSIVE EpisodeList(_, _, _)
EpisodeList(kw, found, d) ==
    IF d = 0 THEN <<>>
    ELSE LET before == EpisodeList(kw, found, d - 1)
         IN  IF kw \in found[d] THEN Append(before, d) ELSE before

\* keyword_to_episodes after the loop of lines 429-435
MapResult(escaped, docs) ==
    LET found == found_in_files(escaped, docs)
    IN  [kw \in UNION Range(found) |-> EpisodeList(kw, found, Len(docs))]

\* the orders in which a set can be iterated
Orders(S) ==
    { q \in [1..Cardinality(S) -> S] : \A a, b \in DOMAIN q : a # b => q[a] # q[b] }

\* escaped_keywords = [re.escape(kw) for kw in all_keywords if kw], then the
\* mapping loop.  The iteration order of the set all_keywords is not fixed.
MapKeywords ==
    /\ pc = "gathered"
    /\ \E order \in Orders(all_keywords \ {<<>>}) :
          /\ escaped_keywords' = order
          /\ keyword_to_episodes' = MapResult(order, transcripts)
    /\ pc' = "mapped"
    /\ UNCHANGED <<all_generated_chunks, chunkVars, transcripts, all_keywords,
                   frequent_keywords_map, sorted_keywords, idx, keywords_to_remove,
                   final_keywords_after_substring, final_keywords,
                   filtered_keyword_to_episodes, episode_to_keywords>>

(***************************************************************************)
(* Frequency filter: lines 444-452.  len(episodes) / total < 0.8 compares  *)
(* the correctly rounded quotient with the double nearest to 0.8; for the  *)
(* corpus sizes of the model this is 5 * len(episodes) < 4 * total.        *)
(***************************************************************************)
total_episode_count == Len(transcripts)

\* A slip in the upper bound: <= 0.8 instead of < 0.8.
is_frequent_le(c, total) == 2 < c /\ 5 * c <= 4 * total

is_frequent(c, total) == 2 < c /\ 5 * c < 4 * total

FrequencyFilter ==
    /\ pc = "mapped"
    /\ frequent_keywords_map' =
          [kw \in { k \in DOMAIN keyword_to_episodes :
                      is_frequent(Len(keyword_to_episodes[k]), total_episode_count) }
              |-> keyword_to_episodes[kw]]
    /\ pc' = "frequent"
    /\ UNCHANGED <<all_generated_chunks, chunkVars, transcripts, all_keywords,
                   escaped_keywords, keyword_to_episodes, sorted_keywords, idx,
                   keywords_to_remove, final_keywords_after_substring,
                   final_keywords, filtered_keyword_to_episodes, episode_to_keywords>>

(***************************************************************************)
(* Substring filter: lines 454-490.                                        *)
(***************************************************************************)
keyword_set == DOMAIN frequent_keywords_map

Abs(x) == IF x < 0 THEN -x ELSE x

\* abs(len(longer_episodes) - len(shorter_episodes)) <= total_episode_count * 0.05;
\* for the corpus sizes of the model the float product compares as total / 20.
is_similar(longer_episodes, shorter_episodes) ==
    20 * Abs(Len(longer_episodes) - Len(shorter_episodes)) <= total_episode_count

\* A slip in the enumeration: j stops at len(longer_keyword) - 1, so the
\* substrings that end at the last character are left out.
substrings_nosuffix(longer_keyword) ==
    { SubSeq(longer_keyword, a + 1, b) :
        a \in 0..(Len(longer_keyword) - 1), b \in 0..(Len(longer_keyword) - 1) }
    \ {longer_keyword, <<>>}

\* {longer_keyword[i:j] for i in range(len) for j in range(i, len + 1)},
\* without longer_keyword itself and without ''
substrings(longer_keyword) ==
    { SubSeq(longer_keyword, a + 1, b) :
        a \in 0..(Len(longer_keyword) - 1), b \in 0..Len(longer_keyword) }
    \ {longer_keyword, <<>>}

\* sorted(list(keyword_set), key=len, reverse=True): the sort is stable, so
\* keywords of equal length keep the set's iteration order, which is not fixed.
SubstringSort ==
    /\ pc = "frequent"
    /\ \E order \in Orders(keyword_set) :
          /\ \A a, b \in DOMAIN order : a < b => Len(order[a]) >= Len(order[b])
          /\ sorted_keywords' = order
    /\ keywords_to_remove' = {}
    /\ idx' = 1
    /\ pc' = "substring"
    /\ UNCHANGED <<all_generated_chunks, chunkVars, transcripts, all_keywords,
                   escaped_keywords, keyword_to_episodes, frequent_keywords_map,
                   final_keywords_after_substring, final_keywords,
                   filtered_keyword_to_episodes, episode_to_keywords>>

\* The shorter keywords that are unmarked, frequent and similar in document
\* count to longer_keyword.
marked_by(longer_keyword, removed) ==
    { shorter_keyword \in substrings(longer_keyword) :
        /\ shorter_keyword \notin removed
        /\ shorter_keyword \in keyword_set
        /\ frequent_keywords_map[shorter_keyword] # <<>>
        /\ is_similar(frequent_keywords_map[longer_keyword],
                      frequent_keywords_map[shorter_keyword]) }

\* the orders in which the set comprehension of line 468 can be iterated
RECURSIVE IterationOrders(_)
IterationOrders(S) ==
    IF S = {} THEN {<<>>}
    ELSE UNION { { <<x>> \o rest : rest \in IterationOrders(S \ {x}) } : x \in S }

\* The marks after the inner loop (lines 476-488) has gone through the
\* substrings in the given order.
RECURSIVE mark_in_order(_, _, _)
mark_in_order(longer_keyword, order, removed) ==
    IF order = <<>> THEN removed
    ELSE LET shorter_keyword == Head(order)
             removed1 ==
                 IF shorter_keyword \in removed THEN removed
                 ELSE IF /\ shorter_keyword \in keyword_set
                         /\ frequent_keywords_map[shorter_keyword] # <<>>
                         /\ is_similar(frequent_keywords_map[longer_keyword],
                                       frequent_keywords_map[shorter_keyword])
                      THEN removed \cup {shorter_keyword}
                 ELSE removed
         IN  mark_in_order(longer_keyword, Tail(order), removed1)

\* A slip in the outer loop: the test of lines 465-466 is missing.
skip_longer_never(longer_keyword, removed) == FALSE

\* if longer_keyword in keywords_to_remove: continue
skip_longer(longer_keyword, removed) == longer_keyword \in removed

\* One iteration of the loop over sorted_keywords; the set of substrings is
\* iterated in an order that is not fixed.
SubstringStep ==
    /\ pc = "substring"
    /\ idx <= Len(sorted_keywords)
    /\ LET longer_keyword == sorted_keywords[idx]
       IN  IF skip_longer(longer_keyword, keywords_to_remove)
           THEN keywords_to_remove' = keywords_to_remove
           ELSE \E order \in IterationOrders(substrings(longer_keyword)) :
                   keywords_to_remove' =
                       mark_in_order(longer_keyword, order, keywords_to_remove)
    /\ idx' = idx + 1
    /\ UNCHANGED <<pc, all_generated_chunks, chunkVars, transcripts, all_keywords,
                   escaped_keywords, keyword_to_episodes, frequent_keywords_map,
                   sorted_keywords, final_keywords_after_substring, final_keywords,
                   filtered_keyword_to_episodes, episode_to_keywords>>

\* final_keywords_after_substring = keyword_set - keywords_to_remove
SubstringEnd ==
    /\ pc = "substring"
    /\ idx > Len(sorted_keywords)
    /\ final_keywords_after_substring' = keyword_set \ keywords_to_remove
    /\ pc' = "substring_done"
    /\ UNCHANGED <<all_generated_chunks, chunkVars, transcripts, all_keywords,
                   escaped_keywords, keyword_to_episodes, frequent_keywords_map,
                   sorted_keywords, idx, keywords_to_remove, final_keywords,
                   filtered_keyword_to_episodes, episode_to_keywords>>

(***************************************************************************)
(* cleanup_keywords: lines 348-369                                         *)
(***************************************************************************)
\* A slip in the role test: one noun role is enough.
is_short_single_noun_any(kw, chunk_info_dict) ==
    /\ Len(kw) <= 2
    /\ kw \in DOMAIN chunk_info_dict
    /\ \E chunk_pos \in chunk_info_dict[kw] : chunk_pos = "meishi"

is_short_single_noun(kw, chunk_info_dict) ==
    /\ Len(kw) <= 2
    /\ kw \in DOMAIN chunk_info_dict
    /\ \A chunk_pos \in chunk_info_dict[kw] : chunk_pos = "meishi"

cleanup_keywords(keywords_to_clean, chunk_info_dict) ==
    { kw \in keywords_to_clean : ~is_short_single_noun(kw, chunk_info_dict) }

\* final_keywords = cleanup_keywords(final_keywords_after_substring, all_generated_chunks)
Cleanup ==
    /\ pc = "substring_done"
    /\ final_keywords' = cleanup_keywords(final_keywords_after_substring,
                                          all_generated_chunks)
    /\ pc' = "cleaned"
    /\ UNCHANGED <<all_generated_chunks, chunkVars, transcripts, all_keywords,
                   escaped_keywords, keyword_to_episodes, frequent_keywords_map,
                   sorted_keywords, idx, keywords_to_remove,
                   final_keywords_after_substring,
                   filtered_keyword_to_episodes, episode_to_keywords>>

(***************************************************************************)
(* Final maps: lines 499-511                                               *)
(***************************************************************************)
\* code point order of the characters of the model
CharCode(c) ==
    CASE c = " " -> 32
      [] c = "a" -> 97
      [] c = "b" -> 98
      [] c = "c" -> 99
      [] OTHER   -> 255

\* s <= t in Python's string order
RECURSIVE StrLeq(_, _)
StrLeq(s, t) ==
    IF s = <<>> THEN TRUE
    ELSE IF t = <<>> THEN FALSE
    ELSE IF CharCode(Head(s)) # CharCode(Head(t))
         THEN CharCode(Head(s)) < CharCode(Head(t))
    ELSE StrLeq(Tail(s), Tail(t))

\* sorted([...]) of a set of strings
RECURSIVE sorted(_)
sorted(S) ==
    IF S = {} THEN <<>>
    ELSE LET m == CHOOSE x \in S : \A y \in S : StrLeq(x, y)
         IN  <<m>> \o sorted(S \ {m})

Finalize ==
    /\ pc = "cleaned"
    /\ filtered_keyword_to_episodes' =
          [kw \in { k \in DOMAIN frequent_keywords_map : k \in final_keywords }
              |-> frequent_keywords_map[kw]]
    /\ LET valid_keywords == DOMAIN filtered_keyword_to_episodes'
           found_keywords(d) ==
               sorted({ kw \in valid_keywords : Contains(transcripts[d], kw) })
       IN  episode_to_keywords' =
              [d \in { e \in DOMAIN transcripts : found_keywords(e) # <<>> }
                  |-> found_keywords(d)]
    /\ pc' = "finalized"
    /\ UNCHANGED <<all_generated_chunks, chunkVars, transcripts, all_keywords,
                   escaped_keywords, keyword_to_episodes, frequent_keywords_map,
                   sorted_keywords, idx, keywords_to_remove,
                   final_keywords_after_substring, final_keywords>>

(***************************************************************************)
(* SpecPipe: the script from the mapping on, for every corpus of NumDocs   *)
(* documents over the letters a, b and every candidate set drawn from      *)
(* '', a, b, ab.                                                           *)
(***************************************************************************)
ContentSet == UNION { [1..n -> {"a", "b"}] : n \in 0..MaxContentLen }

PipeKeywordChoices == SUBSET {<<>>, <<"a">>, <<"b">>, <<"a", "b">>}

PipeChunkInfoChoices == { <<>>, [s \in {<<"a", "b">>} |-> {"meishi"}] }

\* The filters have not run yet.
FiltersIdle ==
    /\ frequent_keywords_map = <<>>
    /\ sorted_keywords = <<>>
    /\ idx = 0
    /\ keywords_to_remove = {}
    /\ final_keywords_after_substring = {}
    /\ final_keywords = {}
    /\ filtered_keyword_to_episodes = <<>>
    /\ episode_to_keywords = <<>>

\* The state at line 419: all_keywords holds the union of the four sources,
\* the keys of all_generated_chunks among them.
InitPipe ==
    /\ pc = "gathered"
    /\ ChunkIdle
    /\ transcripts \in [1..NumDocs -> ContentSet]
    /\ all_generated_chunks \in PipeChunkInfoChoices
    /\ \E other \in PipeKeywordChoices :
          all_keywords = other \cup DOMAIN all_generated_chunks
    /\ escaped_keywords = <<>>
    /\ keyword_to_episodes = <<>>
    /\ FiltersIdle

NextPipe ==
    \/ MapKeywords
    \/ FrequencyFilter
    \/ SubstringSort
    \/ SubstringStep
    \/ SubstringEnd
    \/ Cleanup
    \/ Finalize

SpecPipe == InitPipe /\ [][NextPipe]_vars

(***************************************************************************)
(* SpecFilter: the script after the mapping (line 437), for corpora of     *)
(* SmallTotal and of LargeTotal documents in which each of the candidates  *)
(* abc, ab, bc, b was found in a chosen number of documents.  Document d   *)
(* is the candidates found in at least d documents, joined by spaces, and  *)
(* keyword_to_episodes is what the mapping yields on these documents when  *)
(* the candidate set is iterated longest first.                            *)
(***************************************************************************)
FilterKeywordOrder == << <<"a", "b", "c">>, <<"a", "b">>, <<"b", "c">>, <<"b">> >>

FilterKeywords == Range(FilterKeywordOrder)

LowCounts == {0, 2, 3, 4, 5}

CountChoices(total) ==
    (LowCounts \cup {(4 * total) \div 5 - 1, (4 * total) \div 5}) \cap 0..total

RECURSIVE JoinWithSpace(_)
JoinWithSpace(kws) ==
    IF kws = <<>> THEN <<>>
    ELSE IF Len(kws) = 1 THEN Head(kws)
    ELSE Head(kws) \o <<" ">> \o JoinWithSpace(Tail(kws))

DocContent(d, cnt) ==
    JoinWithSpace(SelectSeq(FilterKeywordOrder, LAMBDA kw : cnt[kw] >= d))

FilterChunkInfoChoices ==
    { [s \in {<<"a", "b", "c">>, <<"b", "c">>} |-> {"meishi"}] }
    \cup
    { [s \in {<<"a", "b", "c">>, <<"b", "c">>, <<"a", "b">>} |->
          IF s = <<"a", "b">> THEN r ELSE {"meishi"}] :
        r \in { {"meishi"}, {"meishi", "doushiku"}, {"doushiku"} } }

InitFilter ==
    /\ pc = "mapped"
    /\ ChunkIdle
    /\ \E total \in {SmallTotal, LargeTotal} :
          \E cnt \in [FilterKeywords -> CountChoices(total)] :
              transcripts = [d \in 1..total |-> DocContent(d, cnt)]
    /\ all_generated_chunks \in FilterChunkInfoChoices
    /\ all_keywords = FilterKeywords
    /\ escaped_keywords = FilterKeywordOrder
    /\ keyword_to_episodes = MapResult(escaped_keywords, transcripts)
    /\ FiltersIdle

NextFilter ==
    \/ FrequencyFilter
    \/ SubstringSort
    \/ SubstringStep
    \/ SubstringEnd
    \/ Cleanup
    \/ Finalize

SpecFilter == InitFilter /\ [][NextFilter]_vars

(***************************************************************************)
(* Properties of the mapping and of the filters                            *)
(***************************************************************************)
Docs == DOMAIN transcripts

Mapped == pc \notin {"start", "add_base", "combine", "add_combined", "done", "gathered"}

\* the documents listed for kw by the mapping
EpisodesOf(m, kw) == IF kw \in DOMAIN m THEN Range(m[kw]) ELSE {}

\* C1: the occurrence map lists under each non-empty candidate exactly the
\* documents whose content contains the candidate as a literal substring,
\* also where its occurrences overlap or lie inside those of other candidates.
C1_ExactOccurrences ==
    Mapped =>
        \A kw \in all_keywords \ {<<>>} : \A d \in Docs :
            d \in EpisodesOf(keyword_to_episodes, kw) <=> Contains(transcripts[d], kw)

FrequencyFiltered ==
    pc \in {"frequent", "substring", "substring_done", "cleaned", "finalized"}

\* C7: the frequency filter keeps a keyword if and only if its document
\* count c satisfies 2 < c and c / totalDocuments < 0.8 (c <= 2 excluded,
\* c = 3 with 3 / total < 0.8 included, c / total >= 0.8 excluded, equality
\* included), and a kept keyword keeps its occurrence list.
C7_FrequencyFilter ==
    FrequencyFiltered =>
        /\ DOMAIN frequent_keywords_map \subseteq DOMAIN keyword_to_episodes
        /\ \A kw \in DOMAIN keyword_to_episodes :
              LET c == Len(keyword_to_episodes[kw])
                  kept == kw \in DOMAIN frequent_keywords_map
              IN  /\ kept <=> (2 < c /\ 5 * c < 4 * total_episode_count)
                  /\ c <= 2 => ~kept
                  /\ (c = 3 /\ 5 * 3 < 4 * total_episode_count) => kept
                  /\ 5 * c >= 4 * total_episode_count => ~kept
                  /\ kept => frequent_keywords_map[kw] = keyword_to_episodes[kw]

\* One corpus with a keyword in 2 documents (dropped), one in 3 (kept) and
\* one in exactly 0.8 of the documents (dropped).
C7_Witness ==
    /\ pc = "frequent"
    /\ \E k1, k2, k3 \in DOMAIN keyword_to_episodes :
          /\ Len(keyword_to_episodes[k1]) = 2 /\ k1 \notin DOMAIN frequent_keywords_map
          /\ Len(keyword_to_episodes[k2]) = 3 /\ k2 \in DOMAIN frequent_keywords_map
          /\ 5 * Len(keyword_to_episodes[k3]) = 4 * total_episode_count
          /\ k3 \notin DOMAIN frequent_keywords_map

\* shorter is a non-empty contiguous substring of longer, other than longer
IsProperSubstring(shorter, longer) ==
    shorter # <<>> /\ shorter # longer /\ Contains(longer, shorter)

DocCount(kw) == Len(frequent_keywords_map[kw])

SubstringFiltered == pc \in {"substring_done", "cleaned", "finalized"}

\* C8: after the substring filter, of two frequent keywords L and S with S a
\* proper substring of L and |docCount(L) - docCount(S)| <= 0.05 * total, S is
\* not in the output if L is; the keywords are processed longest first, a
\* keyword already marked is skipped as L, and a mark is never taken back.
C8_SubstringDominance ==
    /\ [](SubstringFiltered =>
            \A L, S \in keyword_set :
                ( /\ IsProperSubstring(S, L)
                  /\ 20 * Abs(DocCount(L) - DocCount(S)) <= total_episode_count
                  /\ L \in final_keywords_after_substring )
                => S \notin final_keywords_after_substring)
    /\ [](pc = "substring" =>
            /\ Range(sorted_keywords) = keyword_set
            /\ \A a, b \in DOMAIN sorted_keywords :
                  a < b => Len(sorted_keywords[a]) >= Len(sorted_keywords[b]))
    /\ [][(pc = "substring" /\ idx <= Len(sorted_keywords)
           /\ sorted_keywords[idx] \in keywords_to_remove)
          => keywords_to_remove' = keywords_to_remove]_vars
    /\ [][pc = "substring" => keywords_to_remove \subseteq keywords_to_remove']_vars

\* A keyword was removed for a kept superstring with a different document count.
C8_Witness ==
    /\ pc = "substring_done"
    /\ \E L, S \in keyword_set :
          /\ IsProperSubstring(S, L)
          /\ DocCount(L) # DocCount(S)
          /\ L \in final_keywords_after_substring
          /\ S \notin final_keywords_after_substring

\* C9: cleanup_keywords removes a keyword if and only if it is at most 2
\* characters long, has a role set in all_generated_chunks, and every role of
\* that set is the noun role; every other keyword is kept.
C9_Cleanup ==
    pc \in {"cleaned", "finalized"} =>
        /\ final_keywords \subseteq final_keywords_after_substring
        /\ \A kw \in final_keywords_after_substring :
              kw \notin final_keywords <=>
                  ( /\ Len(kw) <= 2
                    /\ kw \in DOMAIN all_generated_chunks
                    /\ all_generated_chunks[kw] \subseteq {"meishi"} )

\* One run in which a short noun-only keyword is removed, a short keyword
\* also seen as a verb phrase is kept and a short keyword without roles is kept.
C9_Witness ==
    /\ pc = "cleaned"
    /\ \E kw \in final_keywords_after_substring : kw \notin final_keywords
    /\ \E kw \in final_keywords :
          /\ Len(kw) <= 2
          /\ kw \in DOMAIN all_generated_chunks
          /\ {"meishi", "doushiku"} \subseteq all_generated_chunks[kw]
    /\ \E kw \in final_keywords :
          Len(kw) <= 2 /\ kw \notin DOMAIN all_generated_chunks

\* C10: the two emitted maps are inverse to each other over the final
\* keywords: d is listed under kw in filtered_keyword_to_episodes if and only
\* if kw is listed under d in episode_to_keywords, which lists every final
\* keyword that occurs literally in d's content; no list names a document twice.
C10_InverseMaps ==
    pc = "finalized" =>
        \A kw \in final_keywords :
            /\ kw \in DOMAIN filtered_keyword_to_episodes
            /\ Cardinality(Range(filtered_keyword_to_episodes[kw]))
                  = Len(filtered_keyword_to_episodes[kw])
            /\ \A d \in Docs :
                  LET listed == d \in DOMAIN episode_to_keywords
                                /\ kw \in Range(episode_to_keywords[d])
                  IN  /\ listed <=> Contains(transcripts[d], kw)
                      /\ d \in EpisodesOf(filtered_keyword_to_episodes, kw) <=> listed

(***************************************************************************)
(* Licensing of a verb phrase that modifies a noun (Rule G, Rule H)        *)
(***************************************************************************)
\* the last token of toks, from position j down, that is a verb; 0 if none
RECURSIVE HeadVerb(_, _)
HeadVerb(toks, j) ==
    IF j = 0 THEN 0
    ELSE IF toks[j].part_of_speech[1] = "doushi" THEN j
    ELSE HeadVerb(toks, j - 1)

\* the verb phrase's last verb is in base or attributive form, or the verb
\* phrase ends in an auxiliary
Licensed(vp) ==
    LET toks == vp.tokens
        v    == HeadVerb(toks, Len(toks))
    IN  \/ v # 0 /\ toks[v].infl_form \in {"kihonkei", "rentaikei"}
        \/ toks[Len(toks)].part_of_speech[1] = "jodoushi"

\* the cursor stands on a verb phrase directly followed by a noun / noun phrase
VerbBeforeNoun ==
    /\ pc = "combine"
    /\ i + 1 < Len(chunks)
    /\ At(chunks, i).pos = "doushiku"
    /\ At(chunks, i + 1).pos \in {"meishiku", "meishi"}

\* this step appends one chunk made of exactly chunks[i] and chunks[i+1]
PairMerged ==
    /\ Len(new_chunks') = Len(new_chunks) + 1
    /\ new_chunks'[Len(new_chunks')].tokens
          = At(chunks, i).tokens \o At(chunks, i + 1).tokens

\* C11: whenever combine_chunks merges exactly two adjacent chunks, a verb
\* phrase followed by a noun or noun phrase, the result is a noun phrase and
\* the verb phrase is licensed (its last verb is in base or attributive form,
\* or its last token is an auxiliary); an unlicensed verb phrase directly
\* followed by a noun chunk is never merged with it as a pair.
C11_LicensedVerbNoun ==
    /\ [][(VerbBeforeNoun /\ PairMerged) =>
            /\ Licensed(At(chunks, i))
            /\ new_chunks'[Len(new_chunks')].pos = "meishiku"
            /\ i' = i + 2]_vars
    /\ [][(VerbBeforeNoun /\ ~Licensed(At(chunks, i))) =>
            /\ ~PairMerged
            /\ i' = i + 1
            /\ new_chunks' = Append(new_chunks, At(chunks, i))]_vars

\* A verb phrase whose verb is in continuative form and which ends in an
\* auxiliary has just been merged with the noun after it.
C11_Witness ==
    /\ pc = "combine"
    /\ i >= 2
    /\ new_chunks # <<>>
    /\ LET vp == At(chunks, i - 2)
           np == At(chunks, i - 1)
           c  == new_chunks[Len(new_chunks)]
       IN  /\ vp.pos = "doushiku"
           /\ np.pos \in {"meishiku", "meishi"}
           /\ c.pos = "meishiku"
           /\ c.tokens = vp.tokens \o np.tokens
           /\ vp.tokens[HeadVerb(vp.tokens, Len(vp.tokens))].infl_form = "renyoukei"
           /\ vp.tokens[Len(vp.tokens)].part_of_speech[1] = "jodoushi"

(***************************************************************************)
(* Who removes whom in the substring filter                                *)
(***************************************************************************)
\* longer is a strict superstring of shorter with a document count within
\* 0.05 * total of shorter's
Dominates(longer, shorter) ==
    /\ IsProperSubstring(shorter, longer)
    /\ 20 * Abs(DocCount(longer) - DocCount(shorter)) <= total_episode_count

\* C12: every keyword the substring filter removes has a strict superstring
\* that is in the filter's output and whose document count differs from its
\* own by at most 0.05 * total: no keyword is removed on account of a longer
\* keyword that is itself removed.  This holds during the loop as well (the
\* superstring has been processed and is unmarked), for every order among
\* keywords of equal length, and whatever the order of the inner loop: each
\* outer iteration marks exactly the unmarked similar substrings of an
\* unmarked keyword.
C12_RemovedHasSurvivingSuperstring ==
    /\ [](SubstringFiltered =>
            \A S \in keyword_set \ final_keywords_after_substring :
                \E L \in final_keywords_after_substring : Dominates(L, S))
    /\ [](pc = "substring" =>
            \A S \in keywords_to_remove :
                \E n \in 1..(idx - 1) :
                    /\ sorted_keywords[n] \notin keywords_to_remove
                    /\ Dominates(sorted_keywords[n], S))
    /\ [][(pc = "substring" /\ idx <= Len(sorted_keywords)) =>
            keywords_to_remove' =
                IF sorted_keywords[idx] \in keywords_to_remove
                THEN keywords_to_remove
                ELSE keywords_to_remove
                     \cup marked_by(sorted_keywords[idx], keywords_to_remove)]_vars

\* A removed keyword M has a substring S with a similar document count that
\* is kept: M was removed for the kept L before its turn came.
C12_Witness ==
    /\ pc = "substring_done"
    /\ \E L, M, S \in keyword_set :
          /\ L \in final_keywords_after_substring
          /\ M \notin final_keywords_after_substring
          /\ S \in final_keywords_after_substring
          /\ Dominates(L, M)
          /\ Dominates(M, S)

====
